---- MODULE Spec2Model ----
(***************************************************************************)
(* The POST /generate-app pipeline of the web-app generator server        *)
(* (src/unnamed/part_000): validation, workspace allocation, capture with *)
(* a headless browser, synthesis of the seven bundle files, archiving,    *)
(* streaming of the archive and cleanup.  Every request is one run of the  *)
(* async handler; an action is the code between two awaits (or one        *)
(* callback), so concurrent requests interleave at the awaits as they do  *)
(* on the Node event loop.                                                *)
(***************************************************************************)
EXTENDS Integers, Sequences, FiniteSets, TLC

\* Number of POST /generate-app requests the clients issue.
NumReqs == 2

Reqs == 1..NumReqs

\* Number of times the user submits the upload form (ClientSpec).
MaxSubmits == 2

\* Longest appName tried when a single request is followed through the
\* handler with every name (NameSpec).
MaxNameLen == 2

\* ------------------------------------------------------------- inputs
\* A field of req.body: undefined (the field is missing), a string (a
\* sequence of characters), or a truthy JSON value that is not a string.
Str(s) == [type |-> "string", val |-> s]
Absent == [type |-> "undefined", val |-> <<>>]
NonString == [type |-> "number", val |-> <<>>]

AppNames == {Absent, NonString, Str(<<>>), Str(<<"a", "/">>)}
WebsiteUrls == {Absent, Str(<<>>), Str(<<"u">>)}

\* JavaScript truthiness of a body field: undefined and '' are falsy.
Truthy(v) == v # Absent /\ v # Str(<<>>)

\* ---------------------------------------------------- sanitize-filename
\* sanitizeFilename(input) with the default (empty) replacement, in the
\* library's order: the illegal characters / ? < > \ : * | " are removed; a
\* name made only of dots becomes empty; a Windows reserved device name (with
\* or without an extension) becomes empty; trailing dots and spaces are
\* removed.  (The cut to 255 bytes is beyond the names modelled.)
IllegalChars == {"/", "?", "<", ">", "\\", ":", "*", "|", "\""}

WindowsReserved == { <<"c","o","n">>, <<"p","r","n">>, <<"a","u","x">>, <<"n","u","l">> }

RECURSIVE RemoveIllegal(_)
RemoveIllegal(s) ==
  IF s = <<>> THEN <<>>
  ELSE IF Head(s) \in IllegalChars THEN RemoveIllegal(Tail(s))
       ELSE <<Head(s)>> \o RemoveIllegal(Tail(s))

OnlyDots(s) == s # <<>> /\ \A i \in 1..Len(s) : s[i] = "."

IsWindowsReserved(s) ==
  \/ s \in WindowsReserved
  \/ Len(s) > 3 /\ SubSeq(s, 1, 3) \in WindowsReserved /\ s[4] = "."

RECURSIVE StripTrailing(_)
StripTrailing(s) ==
  IF s = <<>> THEN <<>>
  ELSE IF s[Len(s)] \in {".", " "} THEN StripTrailing(SubSeq(s, 1, Len(s) - 1))
       ELSE s

sanitizeFilename(input) ==
  LET legal == RemoveIllegal(input)
      named == IF OnlyDots(legal) \/ IsWindowsReserved(legal) THEN <<>> ELSE legal
  IN  StripTrailing(named)

\* ----------------------------------------------------------- constants
\* The files generateAppFiles writes, in the order it writes them.
BundleFiles ==
  << "index.html", "manifest.json", "sw.js", "app.js", "styles.css",
     "icon-192x192.png", "icon-512x512.png" >>

BundleSet == {BundleFiles[i] : i \in 1..Len(BundleFiles)}

MissingFields == "Missing required fields"
InternalError == "Internal server error"
SendingError == "Error sending file"
LogGenerating == "Error generating app:"
LogSending == "Error sending file:"

VARIABLES
  up,          \* the Node process is running (FALSE after an uncaught exception)
  body,        \* r -> [appName, websiteUrl]: req.body of request r
  pc,          \* r -> the await (or callback) request r is waiting at
  sanitizedAppName, \* r -> const sanitizedAppName
  uniqueId,    \* r -> const uniqueId (0 before it is drawn)
  issued,      \* the tokens uuidv4 has returned so far
  browser,     \* r -> "none" | "open" | "closed"
  written,     \* r -> number of generateAppFiles writes completed
  res,         \* r -> [status, error, headersSent]: the response object
  sent,        \* r -> the archive streamed to the caller ({} or one record)
  dirs,        \* generated-apps/: directory path -> set of file names in it
  zips,        \* generated-apps/: archive path -> [entries, complete]
  rm,          \* r -> [dir, zip]: the two fs.remove promises
  log,         \* r -> set of console.error prefixes logged for r
  started,     \* r -> pipeline stages started for r (history)
  failed,      \* r -> the stages that failed for r (history)
  \* the upload-form client (src/backend/frontend/src/App.tsx)
  appNameField,    \* useState appName
  websiteUrlField, \* useState websiteUrl
  isLoading,       \* useState isLoading
  posting,         \* an axios.post of handleSubmit is pending
  posted,          \* the appName handleSubmit closed over ({} before any submit)
  downloaded,      \* the download attributes of the links clicked so far
  toasts,          \* [success, error]: toasts shown so far
  submits          \* number of submissions so far

server == << up, body, pc, sanitizedAppName, uniqueId, issued, browser, written,
             res, sent, dirs, zips, rm, log, started, failed >>

client == << appNameField, websiteUrlField, isLoading, posting, posted,
             downloaded, toasts, submits >>

vars == << server, client >>

NoBody == [appName |-> Absent, websiteUrl |-> Absent]
NoResponse == [status |-> 0, error |-> "", headersSent |-> FALSE]

Init ==
  /\ up = TRUE
  /\ body = [r \in Reqs |-> NoBody]
  /\ pc = [r \in Reqs |-> "idle"]
  /\ sanitizedAppName = [r \in Reqs |-> <<>>]
  /\ uniqueId = [r \in Reqs |-> 0]
  /\ issued = {}
  /\ browser = [r \in Reqs |-> "none"]
  /\ written = [r \in Reqs |-> 0]
  /\ res = [r \in Reqs |-> NoResponse]
  /\ sent = [r \in Reqs |-> {}]
  /\ dirs = << >>
  /\ zips = << >>
  /\ rm = [r \in Reqs |-> [dir |-> "none", zip |-> "none"]]
  /\ log = [r \in Reqs |-> {}]
  /\ started = [r \in Reqs |-> {}]
  /\ failed = [r \in Reqs |-> {}]
  /\ appNameField = <<>>
  /\ websiteUrlField = <<>>
  /\ isLoading = FALSE
  /\ posting = FALSE
  /\ posted = {}
  /\ downloaded = {}
  /\ toasts = [success |-> 0, error |-> 0]
  /\ submits = 0

\* -------------------------------------------------------------- helpers
\* A token generator that hands out a token it has handed out before.
uuidv4Repeating == IF issued = {} THEN Cardinality(issued) + 1 ELSE CHOOSE t \in issued : TRUE

\* uuidv4(): a token no earlier call has returned.
uuidv4 == Cardinality(issued) + 1

\* A workspace path built from the name alone.
appDirNoToken(name, id) == << "generated-apps", name, "-", "" >>

\* path.join(__dirname, 'generated-apps', `${sanitizedAppName}-${uniqueId}`)
appDirOf(name, id) == << "generated-apps", name, "-", id >>

\* path.join(__dirname, 'generated-apps', `${sanitizedAppName}-${uniqueId}.zip`)
zipPathOf(name, id) == << "generated-apps", name, "-", id, ".zip" >>

appDir(r) == appDirOf(sanitizedAppName[r], uniqueId[r])
zipPath(r) == zipPathOf(sanitizedAppName[r], uniqueId[r])

\* A validation that rejects only a body with both fields missing.
MissingFieldBoth(a, u) == ~Truthy(a) /\ ~Truthy(u)

\* if (!appName || !websiteUrl)
MissingField(a, u) == ~Truthy(a) \/ ~Truthy(u)

Without(f, p) == [q \in DOMAIN f \ {p} |-> f[q]]

\* fs.ensureDir: creates the directory unless it is there already.
ensureDir(p) == IF p \in DOMAIN dirs THEN dirs ELSE dirs @@ (p :> {})

\* An archive file whose output stream ended before the archive was final.
PartialArchive == [entries |-> {}, complete |-> FALSE]

\* The catch block: console.error('Error generating app:', error);
\* res.status(500).json({ error: 'Internal server error' }).
Catch(r, stage) ==
  /\ log' = [log EXCEPT ![r] = @ \cup {LogGenerating}]
  /\ res' = [res EXCEPT ![r] = [status |-> 500, error |-> InternalError,
                                headersSent |-> TRUE]]
  /\ failed' = [failed EXCEPT ![r] = @ \cup {stage}]
  /\ pc' = [pc EXCEPT ![r] = "done"]

\* A cleanup that forgets the archive.
CleanupDirOnly(r) == rm' = [rm EXCEPT ![r] = [dir |-> "pending", zip |-> "none"]]

\* The cleanup of the res.download callback: fs.remove(appDir);
\* fs.remove(zipPath); neither promise is awaited.
Cleanup(r) == rm' = [rm EXCEPT ![r] = [dir |-> "pending", zip |-> "pending"]]

At(r, label) == up /\ pc[r] = label

\* ---------------------------------------------------- the route handler
\* The handler up to its first await: validation, sanitizing, the token, and
\* the call of fs.ensureDir.  Requests are numbered in their order of arrival.
PostFrom(r, names) ==
  /\ At(r, "idle")
  /\ \A q \in Reqs : q < r => pc[q] # "idle"
  /\ \E a \in names, u \in WebsiteUrls :
       /\ body' = [body EXCEPT ![r] = [appName |-> a, websiteUrl |-> u]]
       /\ IF MissingField(a, u)
          THEN /\ res' = [res EXCEPT ![r] = [status |-> 400, error |-> MissingFields,
                                             headersSent |-> TRUE]]
               /\ pc' = [pc EXCEPT ![r] = "done"]
               /\ UNCHANGED << sanitizedAppName, uniqueId, issued, started, log, failed >>
          ELSE IF a = NonString
          THEN \* sanitizeFilename throws 'Input must be string'
               /\ Catch(r, "allocation")
               /\ started' = [started EXCEPT ![r] = @ \cup {"allocation"}]
               /\ UNCHANGED << sanitizedAppName, uniqueId, issued >>
          ELSE /\ sanitizedAppName' = [sanitizedAppName EXCEPT ![r] = sanitizeFilename(a.val)]
               /\ uniqueId' = [uniqueId EXCEPT ![r] = uuidv4]
               /\ issued' = issued \cup {uuidv4}
               /\ started' = [started EXCEPT ![r] = @ \cup {"allocation"}]
               /\ pc' = [pc EXCEPT ![r] = "ensureDir"]
               /\ UNCHANGED << res, log, failed >>
  /\ UNCHANGED << up, browser, written, sent, dirs, zips, rm >>
  /\ UNCHANGED client

Post(r) == PostFrom(r, AppNames)

\* await fs.ensureDir(appDir) resolves; puppeteer.launch is called.
EnsureDirOk(r) ==
  /\ At(r, "ensureDir")
  /\ dirs' = ensureDir(appDir(r))
  /\ pc' = [pc EXCEPT ![r] = "launch"]
  /\ started' = [started EXCEPT ![r] = @ \cup {"capture"}]
  /\ UNCHANGED << up, body, sanitizedAppName, uniqueId, issued, browser, written,
                  res, sent, zips, rm, log, failed >>
  /\ UNCHANGED client

EnsureDirFail(r) ==
  /\ At(r, "ensureDir")
  /\ Catch(r, "allocation")
  /\ UNCHANGED << up, body, sanitizedAppName, uniqueId, issued, browser, written,
                  sent, dirs, zips, rm, started >>
  /\ UNCHANGED client

\* await puppeteer.launch(...) resolves; browser.newPage is called.
LaunchOk(r) ==
  /\ At(r, "launch")
  /\ browser' = [browser EXCEPT ![r] = "open"]
  /\ pc' = [pc EXCEPT ![r] = "newPage"]
  /\ UNCHANGED << up, body, sanitizedAppName, uniqueId, issued, written, res, sent,
                  dirs, zips, rm, log, started, failed >>
  /\ UNCHANGED client

\* await browser.newPage() resolves; page.goto is called.
NewPageOk(r) ==
  /\ At(r, "newPage")
  /\ pc' = [pc EXCEPT ![r] = "goto"]
  /\ UNCHANGED << up, body, sanitizedAppName, uniqueId, issued, browser, written,
                  res, sent, dirs, zips, rm, log, started, failed >>
  /\ UNCHANGED client

\* await page.goto(...) resolves (network idle); page.content is called.
GotoOk(r) ==
  /\ At(r, "goto")
  /\ pc' = [pc EXCEPT ![r] = "content"]
  /\ UNCHANGED << up, body, sanitizedAppName, uniqueId, issued, browser, written,
                  res, sent, dirs, zips, rm, log, started, failed >>
  /\ UNCHANGED client

\* await page.content() resolves; browser.close is called.
ContentOk(r) ==
  /\ At(r, "content")
  /\ pc' = [pc EXCEPT ![r] = "close"]
  /\ UNCHANGED << up, body, sanitizedAppName, uniqueId, issued, browser, written,
                  res, sent, dirs, zips, rm, log, started, failed >>
  /\ UNCHANGED client

\* await browser.close() resolves; generateAppFiles is called and starts its
\* first write.
CloseOk(r) ==
  /\ At(r, "close")
  /\ browser' = [browser EXCEPT ![r] = "closed"]
  /\ pc' = [pc EXCEPT ![r] = "write"]
  /\ started' = [started EXCEPT ![r] = @ \cup {"synthesis"}]
  /\ UNCHANGED << up, body, sanitizedAppName, uniqueId, issued, written, res, sent,
                  dirs, zips, rm, log, failed >>
  /\ UNCHANGED client

\* A capture whose failure is logged and swallowed: the handler goes on to
\* generateAppFiles with no content.
CaptureFailSwallowed(r) ==
  /\ up
  /\ pc[r] \in {"launch", "newPage", "goto", "content", "close"}
  /\ log' = [log EXCEPT ![r] = @ \cup {LogGenerating}]
  /\ failed' = [failed EXCEPT ![r] = @ \cup {"capture"}]
  /\ pc' = [pc EXCEPT ![r] = "write"]
  /\ started' = [started EXCEPT ![r] = @ \cup {"synthesis"}]
  /\ UNCHANGED << up, body, sanitizedAppName, uniqueId, issued, browser, written,
                  res, sent, dirs, zips, rm >>
  /\ UNCHANGED client

\* One of the awaits of the capture (launch, newPage, goto with its timeout,
\* content, close) rejects: the catch block runs.  browser.close is reached
\* only after page.content resolved, so a browser that was open stays open.
CaptureFail(r) ==
  /\ up
  /\ pc[r] \in {"launch", "newPage", "goto", "content", "close"}
  /\ Catch(r, "capture")
  /\ UNCHANGED << up, body, sanitizedAppName, uniqueId, issued, browser, written,
                  sent, dirs, zips, rm, started >>
  /\ UNCHANGED client

\* One write of generateAppFiles resolves (fs.writeFile, or fs.copyFile for the
\* icons); after the seventh, generateAppFiles returns and createZipArchive
\* is called.  A write into a directory that is not there cannot succeed.
WriteOk(r) ==
  /\ At(r, "write")
  /\ appDir(r) \in DOMAIN dirs
  /\ dirs' = [dirs EXCEPT ![appDir(r)] = @ \cup {BundleFiles[written[r] + 1]}]
  /\ written' = [written EXCEPT ![r] = @ + 1]
  /\ IF written[r] + 1 = Len(BundleFiles)
     THEN /\ pc' = [pc EXCEPT ![r] = "zip"]
          /\ started' = [started EXCEPT ![r] = @ \cup {"archive"}]
     ELSE UNCHANGED << pc, started >>
  /\ UNCHANGED << up, body, sanitizedAppName, uniqueId, issued, browser, res, sent,
                  zips, rm, log, failed >>
  /\ UNCHANGED client

\* A write of generateAppFiles rejects: the catch block runs.
WriteFail(r) ==
  /\ At(r, "write")
  /\ Catch(r, "synthesis")
  /\ UNCHANGED << up, body, sanitizedAppName, uniqueId, issued, browser, written,
                  sent, dirs, zips, rm, started >>
  /\ UNCHANGED client

\* createZipArchive: the archive is finalized and the output stream emits
\* 'close': resolve().  The handler then calls res.download.
ZipClose(r) ==
  /\ At(r, "zip")
  /\ appDir(r) \in DOMAIN dirs
  /\ zips' = (zipPath(r) :> [entries |-> dirs[appDir(r)], complete |-> TRUE]) @@ zips
  /\ pc' = [pc EXCEPT ![r] = "download"]
  /\ started' = [started EXCEPT ![r] = @ \cup {"stream"}]
  /\ UNCHANGED << up, body, sanitizedAppName, uniqueId, issued, browser, written,
                  res, sent, dirs, rm, log, failed >>
  /\ UNCHANGED client

\* createZipArchive: the archiver emits 'error': reject(err); the catch block
\* runs.  The output file was opened and is left incomplete.
ZipArchiveError(r) ==
  /\ At(r, "zip")
  /\ zips' = (zipPath(r) :> PartialArchive) @@ zips
  /\ Catch(r, "archive")
  /\ UNCHANGED << up, body, sanitizedAppName, uniqueId, issued, browser, written,
                  sent, dirs, rm, started >>
  /\ UNCHANGED client

\* createZipArchive: the output stream fails (disk full, write error).  The
\* stream has no 'error' listener but the one pipe() adds.  Depending on the
\* stream implementation of the build, the error is re-emitted with no
\* listener left (an uncaught exception: the process exits), or it is
\* swallowed and the destroyed stream emits 'close': resolve() with an
\* incomplete file, and the handler goes on to res.download.
ZipStreamError(r) ==
  /\ At(r, "zip")
  /\ zips' = (zipPath(r) :> PartialArchive) @@ zips
  /\ failed' = [failed EXCEPT ![r] = @ \cup {"archive"}]
  /\ \/ /\ up' = FALSE
        /\ UNCHANGED << pc, started >>
     \/ /\ pc' = [pc EXCEPT ![r] = "download"]
        /\ started' = [started EXCEPT ![r] = @ \cup {"stream"}]
        /\ UNCHANGED up
  /\ UNCHANGED << body, sanitizedAppName, uniqueId, issued, browser, written,
                  res, sent, dirs, rm, log >>
  /\ UNCHANGED client

\* A handler that starts the cleanup right after calling res.download instead
\* of in its callback.
SendHeadersThenCleanup(r) ==
  /\ At(r, "download")
  /\ zipPath(r) \in DOMAIN zips
  /\ res' = [res EXCEPT ![r] = [status |-> 200, error |-> "", headersSent |-> TRUE]]
  /\ pc' = [pc EXCEPT ![r] = "streaming"]
  /\ Cleanup(r)
  /\ UNCHANGED << up, body, sanitizedAppName, uniqueId, issued, browser, written,
                  sent, dirs, zips, log, started, failed >>
  /\ UNCHANGED client

\* res.download: the file is found, status 200 and the headers
\* (Content-Disposition: <sanitizedAppName>.zip) go out, the body starts.
SendHeaders(r) ==
  /\ At(r, "download")
  /\ zipPath(r) \in DOMAIN zips
  /\ res' = [res EXCEPT ![r] = [status |-> 200, error |-> "", headersSent |-> TRUE]]
  /\ pc' = [pc EXCEPT ![r] = "streaming"]
  /\ UNCHANGED << up, body, sanitizedAppName, uniqueId, issued, browser, written,
                  sent, dirs, zips, rm, log, started, failed >>
  /\ UNCHANGED client

\* The transfer ends: the res.download callback runs with no error and starts
\* the cleanup.
DownloadOk(r) ==
  /\ At(r, "streaming")
  /\ zipPath(r) \in DOMAIN zips
  /\ sent' = [sent EXCEPT ![r] = {[filename |-> sanitizedAppName[r],
                                    entries |-> zips[zipPath(r)].entries,
                                    complete |-> zips[zipPath(r)].complete]}]
  /\ Cleanup(r)
  /\ pc' = [pc EXCEPT ![r] = "done"]
  /\ UNCHANGED << up, body, sanitizedAppName, uniqueId, issued, browser, written,
                  res, dirs, zips, log, started, failed >>
  /\ UNCHANGED client

\* A send failure answered with the body of the catch block.
DownloadErrEarlySameBody(r) ==
  /\ At(r, "download")
  /\ log' = [log EXCEPT ![r] = @ \cup {LogSending}]
  /\ res' = [res EXCEPT ![r] = [status |-> 500, error |-> InternalError,
                                headersSent |-> TRUE]]
  /\ failed' = [failed EXCEPT ![r] = @ \cup {"stream"}]
  /\ Cleanup(r)
  /\ pc' = [pc EXCEPT ![r] = "done"]
  /\ UNCHANGED << up, body, sanitizedAppName, uniqueId, issued, browser, written,
                  sent, dirs, zips, started >>
  /\ UNCHANGED client

\* The transfer fails before the headers went out (the file cannot be read,
\* the client is gone): the callback runs with err, logs it, answers 500
\* 'Error sending file' and starts the cleanup.
DownloadErrEarly(r) ==
  /\ At(r, "download")
  /\ log' = [log EXCEPT ![r] = @ \cup {LogSending}]
  /\ res' = [res EXCEPT ![r] = [status |-> 500, error |-> SendingError,
                                headersSent |-> TRUE]]
  /\ failed' = [failed EXCEPT ![r] = @ \cup {"stream"}]
  /\ Cleanup(r)
  /\ pc' = [pc EXCEPT ![r] = "done"]
  /\ UNCHANGED << up, body, sanitizedAppName, uniqueId, issued, browser, written,
                  sent, dirs, zips, started >>
  /\ UNCHANGED client

\* The transfer fails after the headers went out: the callback runs with err
\* and logs it; res.status(500).json(...) throws ERR_HTTP_HEADERS_SENT out of
\* the callback, before the cleanup lines, and nothing catches it: the
\* process exits.  The status the caller saw stays the 200 already sent.
DownloadErrLate(r) ==
  /\ At(r, "streaming")
  /\ log' = [log EXCEPT ![r] = @ \cup {LogSending}]
  /\ failed' = [failed EXCEPT ![r] = @ \cup {"stream"}]
  /\ up' = FALSE
  /\ UNCHANGED << body, pc, sanitizedAppName, uniqueId, issued, browser, written,
                  res, sent, dirs, zips, rm, started >>
  /\ UNCHANGED client

\* ------------------------------------------------------------ fs.remove
\* fs.remove resolves: the path is gone (it is no error if it was not there).
RemoveDirOk(r) ==
  /\ up /\ rm[r].dir = "pending"
  /\ dirs' = Without(dirs, appDir(r))
  /\ rm' = [rm EXCEPT ![r].dir = "ok"]
  /\ UNCHANGED << up, body, pc, sanitizedAppName, uniqueId, issued, browser, written,
                  res, sent, zips, log, started, failed >>
  /\ UNCHANGED client

RemoveZipOk(r) ==
  /\ up /\ rm[r].zip = "pending"
  /\ zips' = Without(zips, zipPath(r))
  /\ rm' = [rm EXCEPT ![r].zip = "ok"]
  /\ UNCHANGED << up, body, pc, sanitizedAppName, uniqueId, issued, browser, written,
                  res, sent, dirs, log, started, failed >>
  /\ UNCHANGED client

\* fs.remove rejects.  The promise has no handler: an unhandled rejection,
\* which ends the process or only prints a warning, depending on the runtime.
RemoveDirFail(r) ==
  /\ up /\ rm[r].dir = "pending"
  /\ rm' = [rm EXCEPT ![r].dir = "failed"]
  /\ up' \in BOOLEAN
  /\ UNCHANGED << body, pc, sanitizedAppName, uniqueId, issued, browser, written,
                  res, sent, dirs, zips, log, started, failed >>
  /\ UNCHANGED client

RemoveZipFail(r) ==
  /\ up /\ rm[r].zip = "pending"
  /\ rm' = [rm EXCEPT ![r].zip = "failed"]
  /\ up' \in BOOLEAN
  /\ UNCHANGED << body, pc, sanitizedAppName, uniqueId, issued, browser, written,
                  res, sent, dirs, zips, log, started, failed >>
  /\ UNCHANGED client

\* ----------------------------------------------------------------- spec
\* Everything that can run for a request once its handler was entered.
Handle(r) ==
    \/ EnsureDirOk(r) \/ EnsureDirFail(r)
    \/ LaunchOk(r) \/ NewPageOk(r) \/ GotoOk(r) \/ ContentOk(r) \/ CloseOk(r)
    \/ CaptureFail(r)
    \/ WriteOk(r) \/ WriteFail(r)
    \/ ZipClose(r) \/ ZipArchiveError(r) \/ ZipStreamError(r)
    \/ SendHeaders(r) \/ DownloadOk(r) \/ DownloadErrEarly(r) \/ DownloadErrLate(r)
    \/ RemoveDirOk(r) \/ RemoveZipOk(r) \/ RemoveDirFail(r) \/ RemoveZipFail(r)

Next == \E r \in Reqs : Post(r) \/ Handle(r)

Spec == Init /\ [][Next]_vars

\* Every callback the event loop has pending runs: the system stops only when
\* nothing is left to run.
FairSpec == Spec /\ WF_vars(Next)

\* ------------------------------------------------- one request, any name
\* The same handler serving a single request whose appName is any non-empty
\* string of at most MaxNameLen characters over NameChars.
NameChars == {"a", "/", "."}

RECURSIVE NamesOfLen(_)
NamesOfLen(n) ==
  IF n = 0 THEN {<<>>}
  ELSE {<<c>> \o s : c \in NameChars, s \in NamesOfLen(n - 1)}

RichNames == {Str(s) : s \in UNION {NamesOfLen(n) : n \in 1..MaxNameLen}}

PostNamed(r) == PostFrom(r, RichNames)

NameNext == PostNamed(1) \/ Handle(1)

NameSpec == Init /\ [][NameNext]_vars

\* ------------------------------------------------- the upload-form client
\* App.tsx: the form state and handleSubmit.  The server's answer is what
\* axios sees: the promise resolves (a 2xx answer), rejects (a 4xx or 5xx
\* answer, or no answer at all), or stays pending.
FieldValues == {<<>>, <<"a">>, <<"a", "/">>}
UrlValues == {<<>>, <<"u">>}

\* onChange of the appName input: setAppName(e.target.value)
SetAppName ==
  /\ \E v \in FieldValues : v # appNameField /\ appNameField' = v
  /\ UNCHANGED << websiteUrlField, isLoading, posting, posted, downloaded, toasts, submits >>
  /\ UNCHANGED server

\* onChange of the websiteUrl input: setWebsiteUrl(e.target.value)
SetWebsiteUrl ==
  /\ \E v \in UrlValues : v # websiteUrlField /\ websiteUrlField' = v
  /\ UNCHANGED << appNameField, isLoading, posting, posted, downloaded, toasts, submits >>
  /\ UNCHANGED server

\* The form is submitted: the submit button is enabled (disabled={isLoading})
\* and both required inputs are filled.  handleSubmit runs up to its await:
\* setIsLoading(true); axios.post(...).
Submit ==
  /\ submits < MaxSubmits
  /\ ~isLoading
  /\ appNameField # <<>> /\ websiteUrlField # <<>>
  /\ isLoading' = TRUE
  /\ posting' = TRUE
  /\ posted' = {appNameField}
  /\ submits' = submits + 1
  /\ UNCHANGED << appNameField, websiteUrlField, downloaded, toasts >>
  /\ UNCHANGED server

\* handleSubmit with no finally: a rejected post leaves isLoading set.
PostRejectedNoFinally ==
  /\ posting
  /\ posting' = FALSE
  /\ toasts' = [toasts EXCEPT !.error = @ + 1]
  /\ UNCHANGED << appNameField, websiteUrlField, isLoading, posted, downloaded, submits >>
  /\ UNCHANGED server

\* The post resolves: the blob link is made and clicked (download =
\* `${appName}.zip`, the appName of the submission) and toast.success is
\* shown, unless one of these DOM calls throws, which the catch answers with
\* toast.error; finally setIsLoading(false).
PostResolved ==
  /\ posting
  /\ posting' = FALSE
  /\ \/ /\ downloaded' = downloaded \cup posted
        /\ toasts' = [toasts EXCEPT !.success = @ + 1]
     \/ /\ toasts' = [toasts EXCEPT !.error = @ + 1]
        /\ UNCHANGED downloaded
  /\ isLoading' = FALSE
  /\ UNCHANGED << appNameField, websiteUrlField, posted, submits >>
  /\ UNCHANGED server

\* The post rejects: console.error, toast.error; finally setIsLoading(false).
PostRejected ==
  /\ posting
  /\ posting' = FALSE
  /\ toasts' = [toasts EXCEPT !.error = @ + 1]
  /\ isLoading' = FALSE
  /\ UNCHANGED << appNameField, websiteUrlField, posted, downloaded, submits >>
  /\ UNCHANGED server

ClientNext == SetAppName \/ SetWebsiteUrl \/ Submit \/ PostResolved \/ PostRejected

ClientSpec == Init /\ [][ClientNext]_vars

\* --------------------------------------------------------------- claims
OnDisk(r) == appDir(r) \in DOMAIN dirs \/ zipPath(r) \in DOMAIN zips

DirGoneOrGoing(r) == appDir(r) \notin DOMAIN dirs \/ rm[r].dir = "pending"
ZipGoneOrGoing(r) == zipPath(r) \notin DOMAIN zips \/ rm[r].zip = "pending"

\* The request passed validation, failed in capture, synthesis or archiving,
\* and its 500 response has been sent.
FailedResponse(r) ==
  /\ pc[r] = "done"
  /\ res[r].status = 500
  /\ failed[r] \cap {"capture", "synthesis", "archive"} # {}

\* C1: after a failed response (capture, write or archive failure) has been
\* sent, the workspace directory and the archive file of the request are
\* absent from disk or on their way out (a removal is pending).  Only the
\* request's own fs.remove ever deletes them, so an artifact that is on disk
\* with no removal pending stays on disk for good.
C1_FailedResponseLeavesNothing ==
  \A r \in Reqs : FailedResponse(r) => DirGoneOrGoing(r) /\ ZipGoneOrGoing(r)

\* C2: when the res.download callback receives an error (before or after the
\* headers went out), the error is logged and the removal of the workspace
\* directory and of the archive file is initiated.
C2_SendFailureStillCleansUp ==
  \A r \in Reqs :
    "stream" \in failed[r] =>
      /\ LogSending \in log[r]
      /\ rm[r].dir # "none"
      /\ rm[r].zip # "none"

\* The archive was streamed to the end with status 200.
Completed200(r) == pc[r] = "done" /\ res[r].status = 200

\* C3 (as claimed): after a successful response, once the request's two
\* removals have settled (nothing more will run for the request), neither
\* the workspace directory nor the archive file exists on disk.
C3_SuccessLeavesNothing ==
  \A r \in Reqs :
    (Completed200(r) /\ rm[r].dir # "pending" /\ rm[r].zip # "pending")
      => ~OnDisk(r)

\* C3 (amended): after a successful response both removals have been
\* initiated, and each artifact is absent from disk once its own removal has
\* succeeded.
C3_SuccessInitiatesCleanup ==
  \A r \in Reqs :
    Completed200(r) =>
      /\ rm[r].dir # "none" /\ rm[r].zip # "none"
      /\ rm[r].dir = "ok" => appDir(r) \notin DOMAIN dirs
      /\ rm[r].zip = "ok" => zipPath(r) \notin DOMAIN zips

C3_Witness ==
  \E r \in Reqs :
    /\ Completed200(r)
    /\ rm[r] = [dir |-> "ok", zip |-> "ok"]
    /\ ~OnDisk(r)

\* C4: a request whose appName or websiteUrl is absent or empty is answered
\* 400 {error: 'Missing required fields'} and has no side effect: no token,
\* no stage started, no browser, no write, no removal, nothing of it on disk.
Falsy(v) == v \in {Absent, Str(<<>>)}

C4_MissingFieldsRejected ==
  \A r \in Reqs :
    (pc[r] # "idle" /\ (Falsy(body[r].appName) \/ Falsy(body[r].websiteUrl))) =>
      /\ pc[r] = "done"
      /\ res[r] = [status |-> 400, error |-> MissingFields, headersSent |-> TRUE]
      /\ uniqueId[r] = 0
      /\ started[r] = {}
      /\ browser[r] = "none"
      /\ written[r] = 0
      /\ sent[r] = {}
      /\ rm[r] = [dir |-> "none", zip |-> "none"]
      /\ \A p \in DOMAIN dirs \cup DOMAIN zips : \E q \in Reqs : q # r /\ p[4] = uniqueId[q]

C4_Witness ==
  /\ \E r \in Reqs : pc[r] = "done" /\ body[r] = [appName |-> Str(<<>>), websiteUrl |-> Str(<<"u">>)]
  /\ \E r \in Reqs : pc[r] = "done" /\ body[r] = [appName |-> Str(<<"a", "/">>), websiteUrl |-> Absent]

\* C5: two requests with the same appName that have drawn their tokens (in
\* particular two that are in flight at the same time) have different tokens,
\* different workspace paths and different archive paths; every directory
\* and archive on disk carries the name and the token of one request.
Allocated(r) == uniqueId[r] # 0

C5_NoCollision ==
  /\ \A r1, r2 \in Reqs :
       (r1 # r2 /\ Allocated(r1) /\ Allocated(r2) /\ body[r1].appName = body[r2].appName) =>
         /\ uniqueId[r1] # uniqueId[r2]
         /\ appDir(r1) # appDir(r2)
         /\ zipPath(r1) # zipPath(r2)
  /\ \A z \in DOMAIN zips :
       \E r \in Reqs : Allocated(r) /\ z[2] = sanitizedAppName[r] /\ z[4] = uniqueId[r]
  /\ \A d \in DOMAIN dirs :
       \E r \in Reqs : Allocated(r) /\ d[2] = sanitizedAppName[r] /\ d[4] = uniqueId[r]

C5_Witness ==
  \E r1, r2 \in Reqs :
    /\ r1 # r2
    /\ body[r1].appName = body[r2].appName
    /\ pc[r1] = "zip" /\ pc[r2] = "write"
    /\ appDir(r1) \in DOMAIN dirs /\ appDir(r2) \in DOMAIN dirs

\* C6: when the capture has failed, no file has been written for the request
\* (its workspace directory, made before the capture, is empty and there is
\* no archive), and neither generateAppFiles nor createZipArchive is started.
C6_CaptureFailureWritesNothing ==
  \A r \in Reqs :
    "capture" \in failed[r] =>
      /\ written[r] = 0
      /\ appDir(r) \in DOMAIN dirs => dirs[appDir(r)] = {}
      /\ zipPath(r) \notin DOMAIN zips
      /\ started[r] \cap {"synthesis", "archive", "stream"} = {}

C6_Witness ==
  \E r \in Reqs :
    /\ "capture" \in failed[r] /\ pc[r] = "done" /\ browser[r] = "open"
    /\ appDir(r) \in DOMAIN dirs

\* The stages of the pipeline, in order.
StageNo(s) ==
  CASE s = "allocation" -> 1 [] s = "capture" -> 2 [] s = "synthesis" -> 3
    [] s = "archive" -> 4 [] s = "stream" -> 5

\* C7: once allocation, capture, synthesis or archiving has failed for a
\* request, no later stage has been started for it and the caller has its
\* 500 response.
C7_FailureShortCircuits ==
  \A r \in Reqs :
    \A f \in failed[r] \ {"stream"} :
      /\ \A s \in started[r] : StageNo(s) <= StageNo(f)
      /\ res[r].status = 500

\* C8 (as claimed): every server-error response is 500 with the body
\* {error: 'Internal server error'}, whichever stage failed.
C8_OneErrorBody ==
  \A r \in Reqs :
    res[r].status \notin {0, 200, 400} =>
      res[r].status = 500 /\ res[r].error = InternalError

\* C8 (amended): every server-error response is 500; its body is
\* {error: 'Internal server error'} when the catch block answered (a failure
\* before the transfer) and {error: 'Error sending file'} when the
\* res.download callback answered a send failure.
C8_ErrorBodies ==
  \A r \in Reqs :
    res[r].status \notin {0, 200, 400} =>
      /\ res[r].status = 500
      /\ \/ res[r].error = InternalError /\ failed[r] # {} /\ "stream" \notin failed[r]
         \/ res[r].error = SendingError /\ "stream" \in failed[r]

C8_Witness ==
  /\ \E r \in Reqs : res[r].status = 500 /\ res[r].error = SendingError
  /\ \E r \in Reqs : res[r].status = 500 /\ res[r].error = InternalError

\* C9: res.download is started only for an archive that is complete, with
\* every workspace entry in it; when archiving has failed, streaming is not
\* started and no incomplete archive is sent.
C9_NoPartialArchiveServed ==
  \A r \in Reqs :
    /\ "stream" \in started[r] => "archive" \notin failed[r]
    /\ pc[r] \in {"download", "streaming"} =>
         /\ zipPath(r) \in DOMAIN zips
         /\ zips[zipPath(r)].complete
    /\ \A a \in sent[r] : a.complete

\* C10: whenever a 200 response is produced, the archive streamed holds
\* exactly the seven bundle files.
C10_ArchiveHoldsTheBundle ==
  \A r \in Reqs :
    /\ (pc[r] = "streaming" /\ res[r].status = 200) =>
         zips[zipPath(r)].entries = BundleSet
    /\ \A a \in sent[r] : a.entries = BundleSet

\* C11: a request whose non-empty appName sanitizes to the empty string is
\* refused at allocation: no workspace directory is made for it and the
\* capture is not started; every workspace on disk has a non-empty
\* sanitized name component.
EmptyToken(r) ==
  /\ pc[r] # "idle"
  /\ body[r].appName.type = "string"
  /\ body[r].appName.val # <<>>
  /\ Truthy(body[r].websiteUrl)
  /\ sanitizeFilename(body[r].appName.val) = <<>>

C11_EmptyTokenRefused ==
  /\ \A r \in Reqs :
       EmptyToken(r) => appDir(r) \notin DOMAIN dirs /\ "capture" \notin started[r]
  /\ \A d \in DOMAIN dirs : d[2] # <<>>

\* C12: a browser launched for a request is closed before the request's
\* response is sent, on every exit path.
C12_BrowserClosedBeforeResponse ==
  \A r \in Reqs : res[r].status # 0 => browser[r] # "open"

\* The promise createZipArchive returned to the handler, read off the
\* handler's position: pending while the handler waits at it, resolved when
\* the handler went on to res.download, rejected when the catch block ran.
ZipPromise(r) ==
  IF "archive" \notin started[r] THEN "none"
  ELSE IF pc[r] = "zip" THEN "pending"
  ELSE IF "stream" \in started[r] THEN "resolved"
  ELSE "rejected"

\* C13: whenever archiving has failed (an error of the archiver or of the
\* output stream) the promise of createZipArchive is rejected; it is neither
\* left pending nor resolved.
C13_ArchiveFailureRejects ==
  \A r \in Reqs : "archive" \in failed[r] => ZipPromise(r) = "rejected"

\* Request r took no step: nothing of its own handler state changes.
Untouched(r) ==
  /\ pc'[r] = pc[r] /\ rm'[r] = rm[r] /\ written'[r] = written[r]
  /\ res'[r] = res[r] /\ log'[r] = log[r] /\ failed'[r] = failed[r]
  /\ started'[r] = started[r] /\ sent'[r] = sent[r]

DirOf(fs, p) == IF p \in DOMAIN fs THEN {fs[p]} ELSE {}

\* C14: a step of one request leaves the workspace directory and the archive
\* of every other request that has its token as they were (present or not,
\* and with the same content), and a request streams its own archive.
C14_ExclusiveOwnership ==
  [][\A r \in Reqs :
       (Allocated(r) /\ Untouched(r)) =>
         /\ DirOf(dirs', appDir(r)) = DirOf(dirs, appDir(r))
         /\ DirOf(zips', zipPath(r)) = DirOf(zips, zipPath(r))]_vars

C14_Witness ==
  \E r1, r2 \in Reqs :
    /\ r1 # r2
    /\ pc[r1] = "done" /\ rm[r1] = [dir |-> "ok", zip |-> "ok"]
    /\ pc[r2] = "streaming"
    /\ dirs[appDir(r2)] = BundleSet /\ zips[zipPath(r2)].complete
    /\ ~OnDisk(r1)

\* C15: the removals of a request are initiated only after its transfer has
\* ended (the res.download callback ran), and the archive file is on disk
\* for as long as it is being streamed.
C15_CleanupAfterStreaming ==
  \A r \in Reqs :
    /\ (rm[r].dir # "none" \/ rm[r].zip # "none") =>
         pc[r] = "done" /\ "stream" \in started[r]
    /\ pc[r] \in {"download", "streaming"} => zipPath(r) \in DOMAIN zips

C15_Witness ==
  \E r \in Reqs :
    /\ pc[r] = "done" /\ res[r].status = 200 /\ sent[r] # {}
    /\ rm[r] = [dir |-> "pending", zip |-> "pending"]

\* C16: a removal that fails is logged and affects nothing else: the process
\* keeps running.
CleanupFailureLogged(r) == log[r] \ {LogGenerating, LogSending} # {}

C16_CleanupFailureContained ==
  \A r \in Reqs :
    (rm[r].dir = "failed" \/ rm[r].zip = "failed") =>
      up /\ CleanupFailureLogged(r)

\* C17: the browsers open at the same time stay below the number of requests
\* in flight: there is a limit that the requests cannot all pass together.
OpenBrowsers == {r \in Reqs : browser[r] = "open"}

C17_BoundedSessions == Cardinality(OpenBrowsers) < NumReqs

\* The res.download callback ran its error branch, res.status(500).json(...),
\* on a response whose headers had gone out.
WroteAfterHeaders(r) ==
  res[r].headersSent /\ pc[r] = "streaming" /\ "stream" \in failed[r]

\* C18: the handler never sets a status or writes a body on a response whose
\* headers have already been sent.
C18_OneResponse == \A r \in Reqs : ~WroteAfterHeaders(r)

\* C19: a request that has entered the handler and has no response yet can
\* always take a further step (every pending operation can still succeed or
\* fail), so it cannot be left without a response.
C19_NeverStuckWithoutResponse ==
  \A r \in Reqs :
    (pc[r] # "idle" /\ res[r].status = 0) => ENABLED Handle(r)

\* C20: in the upload form isLoading is true exactly while a submission is
\* in flight, so the submit button is enabled again once the request has
\* settled, and every settled submission has shown exactly one toast.
C20_LoadingWhileInFlight ==
  /\ isLoading = posting
  /\ toasts.success + toasts.error = submits - (IF posting THEN 1 ELSE 0)

C20_Witness ==
  /\ submits = MaxSubmits /\ ~posting /\ ~isLoading
  /\ toasts.success >= 1 /\ toasts.error >= 1

====
